---- MODULE Spec2Model ----
(***************************************************************************)
(* Model of src/sync_feed.py: one run of sync_data() against the feed and  *)
(* the store table.  A run checks its environment, creates the store       *)
(* client, downloads the gzip feed, reads it in chunks of CHUNK_SIZE rows, *)
(* cleans each chunk with clean_dataframe() and upserts it in batches of   *)
(* BATCH_SIZE records, then reports.                                       *)
(*                                                                         *)
(* Cell values are strings.  "12", "inf", "-inf", "NaN" stand for the      *)
(* floats pandas holds in a numeric column, "s:..." for the str objects of *)
(* an object column, and "None" for Python's None (SQL NULL).              *)
(*                                                                         *)
(* Spec is the run over any feed and table; SpecWide the run over the      *)
(* wider range of zipcode cells; SpecResubmit the store's upsert applied   *)
(* twice to one batch; FairSpec the run under weak fairness.               *)
(***************************************************************************)
EXTENDS Integers, Sequences, FiniteSets, TLC

\* ---------------------------------------------------------------- bounds
\* Longest feed (data rows) a run is given.
MaxRows == 4
\* Watermark carried by the rows an earlier run left in the store.
StaleWatermark == 1
\* Longest feed of the runs over the wider range of zipcode cells.
MaxWideRows == 3

\* ------------------------------------------------------------- constants
\* BATCH_SIZE and CHUNK_SIZE of the script, scaled down (1000 and 5000 in
\* the source) keeping BATCH_SIZE < CHUNK_SIZE and a chunk that is not a
\* multiple of a batch.
BATCH_SIZE == 2
CHUNK_SIZE == 3

\* Values of the UNIQUE_KEY column (aw_product_id) as read_csv yields them;
\* "NaN" is an empty cell.
Keys == {"k1", "k2"}
KeyCells == Keys \cup {"NaN"}
\* Values of the Travel:destination_zipcode column in the feeds of a run:
\* an object column holding a numeric and a non-numeric string.
ZipCells == {"s:12", "s:SW1A"}

\* The zipcode cells of a chunk whose column read_csv parsed as numbers,
\* and of a chunk whose column holds text; "NaN" is an empty cell.
NumericCells == {"12", "inf", "-inf", "NaN"}
ObjectCells == {"s:12", "s:inf", "s:SW1A", "NaN"}
WideRows == [aw_product_id : {"k1"}, zipcode : NumericCells \cup ObjectCells]

RawRows == [aw_product_id : KeyCells, zipcode : ZipCells]

\* A store row that carries no watermark: records built by to_dict() hold
\* the feed's columns only, so a row the run inserts has none.
NoWatermark == <<>>

VARIABLES
    where_keeps_nan, \* the installed pandas keeps NaN in a float column
    feed,            \* the data rows of the feed behind AWIN_FEED_URL
    store,           \* the table: unique key -> row [zipcode, watermark]
    nullRows,        \* rows of the table whose unique key is NULL
    store0,          \* the table as the run found it
    pc,              \* position of sync_data
    status_code,     \* response.status_code (0 before the request)
    pos,             \* rows the reader has handed out so far
    first_chunk,     \* the reader has not yet produced a chunk
    chunk_idx,       \* chunks completely processed
    records,         \* df_clean.to_dict(orient='records') of the chunk
    i,               \* loop variable of the batch loop
    total_uploaded,
    has_errors,
    calls,           \* store calls issued by the run, in order
    outcome,         \* the final message printed
    exit_code        \* process exit status (-1 while running)

vars == <<where_keeps_nan, feed, store, nullRows, store0, pc, status_code, pos, first_chunk,
          chunk_idx, records, i, total_uploaded, has_errors, calls, outcome,
          exit_code>>

\* ------------------------------------------------------- clean_dataframe
\* Step 1: df.replace([inf, -inf], nan) acts on float infinities only.
ReplaceInf(c) == IF c \in {"inf", "-inf"} THEN "NaN" ELSE c

\* pd.to_numeric(..., errors='coerce') on one cell.
ToNumeric(c) ==
    CASE c = "s:12"   -> "12"
      [] c = "s:inf"  -> "inf"
      [] c = "s:-inf" -> "-inf"
      [] c = "s:SW1A" -> "NaN"
      [] OTHER        -> c

\* Step 3: df.where(pd.notnull(df), None) on a cell of an object column.
NullToNone(c) == IF c = "NaN" THEN "None" ELSE c

\* Step 3 on a cell of a float64 column, which the zipcode column is after
\* to_numeric.  What where() does there depends on the pandas installed: an
\* older one casts the column to object and stores None; from 1.3 on (the
\* versions that know on_bad_lines, line 71) the column stays float64 and
\* None is stored as NaN.  The source pins no version.
FloatNullToNone(c) ==
    IF c = "NaN" /\ ~where_keeps_nan THEN "None" ELSE c

CleanRow(r) ==
    [aw_product_id |-> NullToNone(ReplaceInf(r.aw_product_id)),
     zipcode       |-> FloatNullToNone(ToNumeric(ReplaceInf(r.zipcode)))]

\* Variant: rows with an empty unique key are dropped from the frame.
clean_dataframeDropsBlankKeys(df) ==
    LET kept == SelectSeq(df, LAMBDA r : r.aw_product_id # "NaN")
    IN  [n \in 1..Len(kept) |-> CleanRow(kept[n])]

clean_dataframe(df) == [n \in 1..Len(df) |-> CleanRow(df[n])]

\* ------------------------------------------------------------- the store
Min(a, b) == IF a < b THEN a ELSE b

\* Variant: the upsert ignores duplicates, a row that exists is not updated.
UpsertRowIgnoreDuplicates(st, r) ==
    IF r.aw_product_id = "None" \/ r.aw_product_id \in DOMAIN st THEN st
    ELSE [k \in DOMAIN st \cup {r.aw_product_id} |->
            IF k = r.aw_product_id
            THEN [zipcode |-> r.zipcode, watermark |-> NoWatermark]
            ELSE st[k]]

\* upsert of one record with on_conflict=UNIQUE_KEY: the columns of the
\* record are written, the other columns of an existing row are kept.
UpsertRow(st, r) ==
    IF r.aw_product_id = "None" THEN st
    ELSE [k \in DOMAIN st \cup {r.aw_product_id} |->
            IF k = r.aw_product_id
            THEN [zipcode |-> r.zipcode,
                  watermark |-> IF k \in DOMAIN st THEN st[k].watermark
                                ELSE NoWatermark]
            ELSE st[k]]

RECURSIVE ApplyUpsert(_, _)
ApplyUpsert(st, batch) ==
    IF batch = <<>> THEN st
    ELSE ApplyUpsert(UpsertRow(st, Head(batch)), Tail(batch))

\* The request body is JSON, which has no NaN and no infinity: a batch
\* holding one cannot be written, the call raises.
JsonCompliant(batch) ==
    \A n \in 1..Len(batch) :
        /\ batch[n].zipcode \notin {"NaN", "inf", "-inf"}
        /\ batch[n].aw_product_id \notin {"NaN", "inf", "-inf"}

\* Variant: the upsert names no usable conflict target, so every record is
\* inserted as a further row.
NullKeyCountEveryRecord(batch) == Len(batch)

\* Records of a batch with a null unique key: NULL conflicts with no row,
\* so a table that admits it gets a further row for each of them.
NullKeyCount(batch) ==
    Cardinality({n \in 1..Len(batch) : batch[n].aw_product_id = "None"})

\* --------------------------------------------------------------- helpers
\* Variant: the slice is one record short, records[i:i + BATCH_SIZE - 1].
SliceOneShort(recs, from) ==
    SubSeq(recs, from + 1, Min(from + BATCH_SIZE - 1, Len(recs)))

\* records[i:i + BATCH_SIZE], with i counted from 0 as in the source.
Slice(recs, from) == SubSeq(recs, from + 1, Min(from + BATCH_SIZE, Len(recs)))

Exit(code, msg) ==
    /\ pc' = "exited"
    /\ exit_code' = code
    /\ outcome' = msg

StoreRows == [zipcode : {"old"}, watermark : {<<StaleWatermark>>}]

InitialStores ==
    UNION {[D -> StoreRows] : D \in SUBSET Keys}

RECURSIVE SeqsUpTo(_, _)
SeqsUpTo(S, n) ==
    IF n = 0 THEN {<<>>}
    ELSE LET shorter == SeqsUpTo(S, n - 1)
         IN  shorter \cup {Append(s, x) : s \in {t \in shorter : Len(t) = n - 1}, x \in S}

Init ==
    /\ where_keeps_nan \in BOOLEAN
    /\ feed \in SeqsUpTo(RawRows, MaxRows)
    /\ store \in InitialStores
    /\ store0 = store
    /\ nullRows = 0
    /\ pc = "setup"
    /\ status_code = 0
    /\ pos = 0
    /\ first_chunk = TRUE
    /\ chunk_idx = 0
    /\ records = <<>>
    /\ i = 0
    /\ total_uploaded = 0
    /\ has_errors = FALSE
    /\ calls = <<>>
    /\ outcome = "running"
    /\ exit_code = -1

\* read_csv types a column chunk by chunk: the zipcode cells of one chunk
\* are all numbers, or all text when some cell does not parse as a number.
ColumnUniform(f) ==
    \A c \in 0..(Len(f) \div CHUNK_SIZE) :
        LET cells == {f[n].zipcode : n \in
                        (c * CHUNK_SIZE + 1)..Min((c + 1) * CHUNK_SIZE, Len(f))}
        IN  \/ cells \subseteq NumericCells
            \/ cells \subseteq ObjectCells /\ "s:SW1A" \in cells

\* Runs over the wider range of zipcode cells, on an empty table, with a
\* pandas whose where() stores None in a float column as the comment of
\* step 3 says.
InitWide ==
    /\ where_keeps_nan = FALSE
    /\ feed \in {f \in SeqsUpTo(WideRows, MaxWideRows) : ColumnUniform(f)}
    /\ store = <<>>
    /\ store0 = store
    /\ nullRows = 0
    /\ pc = "setup"
    /\ status_code = 0
    /\ pos = 0
    /\ first_chunk = TRUE
    /\ chunk_idx = 0
    /\ records = <<>>
    /\ i = 0
    /\ total_uploaded = 0
    /\ has_errors = FALSE
    /\ calls = <<>>
    /\ outcome = "running"
    /\ exit_code = -1

\* --------------------------------------------------------------- actions
\* Lines 38-44: a missing environment variable ends the run.
CheckEnv ==
    /\ pc = "setup"
    /\ \/ Exit(1, "missing_env")
       \/ /\ pc' = "create_client"
          /\ UNCHANGED <<exit_code, outcome>>
    /\ UNCHANGED <<where_keeps_nan, feed, store, nullRows, store0, status_code, pos,
                   first_chunk, chunk_idx, records, i, total_uploaded,
                   has_errors, calls>>

\* Lines 46-50.
CreateClient ==
    /\ pc = "create_client"
    /\ \/ Exit(1, "client_error")
       \/ /\ pc' = "download"
          /\ UNCHANGED <<exit_code, outcome>>
    /\ UNCHANGED <<where_keeps_nan, feed, store, nullRows, store0, status_code, pos,
                   first_chunk, chunk_idx, records, i, total_uploaded,
                   has_errors, calls>>

\* Line 56: requests.get raises (connection failure); the handler of line
\* 115 ends the run.
RequestGetRaises ==
    /\ pc = "download"
    /\ Exit(1, "critical")
    /\ UNCHANGED <<where_keeps_nan, feed, store, nullRows, store0, status_code, pos,
                   first_chunk, chunk_idx, records, i, total_uploaded,
                   has_errors, calls>>

\* Variant: the status of the response is not checked.
RequestGetNoStatusCheck ==
    /\ pc = "download"
    /\ \E sc \in {200, 404, 500} : status_code' = sc
    /\ pc' = "open_reader"
    /\ UNCHANGED <<where_keeps_nan, feed, store, nullRows, store0, pos, first_chunk,
                   chunk_idx, records, i, total_uploaded, has_errors, calls,
                   exit_code, outcome>>

\* Lines 56-62: the response arrives; any status but 200 ends the run.
RequestGet ==
    /\ pc = "download"
    /\ \E sc \in {200, 404, 500} :
         /\ status_code' = sc
         /\ IF sc # 200
            THEN Exit(1, "bad_status")
            ELSE /\ pc' = "open_reader"
                 /\ UNCHANGED <<exit_code, outcome>>
    /\ UNCHANGED <<where_keeps_nan, feed, store, nullRows, store0, pos, first_chunk,
                   chunk_idx, records, i, total_uploaded, has_errors, calls>>

\* Lines 65-75: pd.read_csv opens the gzip stream and reads the header; a
\* stream that is not gzip, or is empty, raises into the handler of line 115.
ReadCsv ==
    /\ pc = "open_reader"
    /\ \/ Exit(1, "critical")
       \/ /\ pc' = "next_chunk"
          /\ UNCHANGED <<exit_code, outcome>>
    /\ UNCHANGED <<where_keeps_nan, feed, store, nullRows, store0, status_code, pos,
                   first_chunk, chunk_idx, records, i, total_uploaded,
                   has_errors, calls>>

\* Line 77: the reader raises while decoding the next chunk (truncated or
\* corrupt stream, dropped connection); the handler of line 115 ends the run.
NextChunkRaises ==
    /\ pc = "next_chunk"
    /\ Exit(1, "critical")
    /\ UNCHANGED <<where_keeps_nan, feed, store, nullRows, store0, status_code, pos,
                   first_chunk, chunk_idx, records, i, total_uploaded,
                   has_errors, calls>>

\* Lines 77-85: the reader yields the next CHUNK_SIZE rows (the first chunk
\* of a feed with no data rows is an empty frame), which are cleaned and
\* turned into records.
NextChunk ==
    /\ pc = "next_chunk"
    /\ pos < Len(feed) \/ first_chunk
    /\ LET df == SubSeq(feed, pos + 1, Min(pos + CHUNK_SIZE, Len(feed)))
       IN  /\ records' = clean_dataframe(df)
           /\ pos' = pos + Len(df)
    /\ first_chunk' = FALSE
    /\ i' = 0
    /\ pc' = "batch"
    /\ UNCHANGED <<where_keeps_nan, feed, store, nullRows, store0, status_code, chunk_idx,
                   total_uploaded, has_errors, calls, outcome, exit_code>>

\* Line 77: the reader is exhausted and the loop ends.
FeedExhausted ==
    /\ pc = "next_chunk"
    /\ pos >= Len(feed) /\ ~first_chunk
    /\ pc' = "finish"
    /\ UNCHANGED <<where_keeps_nan, feed, store, nullRows, store0, status_code, pos,
                   first_chunk, chunk_idx, records, i, total_uploaded,
                   has_errors, calls, outcome, exit_code>>

Call(batch, ok) ==
    [op |-> "upsert", chunk |-> chunk_idx, at |-> i, batch |-> batch, ok |-> ok]

\* Variant: the upsert request is built but never executed.
UpsertAcceptNoExecute ==
    /\ pc = "batch"
    /\ i < Len(records)
    /\ JsonCompliant(Slice(records, i))
    /\ calls' = Append(calls, Call(Slice(records, i), TRUE))
    /\ i' = i + BATCH_SIZE
    /\ UNCHANGED <<where_keeps_nan, feed, store, nullRows, store0, pc, status_code, pos,
                   first_chunk, chunk_idx, records, total_uploaded,
                   has_errors, outcome, exit_code>>

\* Lines 87-98: the store accepts the upsert of records[i:i+BATCH_SIZE].
UpsertAccept ==
    /\ pc = "batch"
    /\ i < Len(records)
    /\ JsonCompliant(Slice(records, i))
    /\ LET batch == Slice(records, i)
       IN  /\ store' = ApplyUpsert(store, batch)
           /\ nullRows' = nullRows + NullKeyCount(batch)
           /\ calls' = Append(calls, Call(batch, TRUE))
    /\ i' = i + BATCH_SIZE
    /\ UNCHANGED <<where_keeps_nan, feed, store0, pc, status_code, pos, first_chunk,
                   chunk_idx, records, total_uploaded, has_errors, outcome,
                   exit_code>>

\* Variant: a raised upsert leaves the batch loop of the chunk (break).
UpsertRejectBreaks ==
    /\ pc = "batch"
    /\ i < Len(records)
    /\ calls' = Append(calls, Call(Slice(records, i), FALSE))
    /\ has_errors' = TRUE
    /\ i' = Len(records)
    /\ UNCHANGED <<where_keeps_nan, feed, store, nullRows, store0, pc, status_code, pos,
                   first_chunk, chunk_idx, records, total_uploaded, outcome,
                   exit_code>>

\* Variant: no try around the upsert, the error reaches the handler of
\* line 115.
UpsertRejectPropagates ==
    /\ pc = "batch"
    /\ i < Len(records)
    /\ calls' = Append(calls, Call(Slice(records, i), FALSE))
    /\ Exit(1, "critical")
    /\ UNCHANGED <<where_keeps_nan, feed, store, nullRows, store0, status_code, pos,
                   first_chunk, chunk_idx, records, i, total_uploaded,
                   has_errors>>

\* Variant: a raised upsert is retried, the loop does not advance.
UpsertRejectRetries ==
    /\ pc = "batch"
    /\ i < Len(records)
    /\ calls' = Append(calls, Call(Slice(records, i), FALSE))
    /\ has_errors' = TRUE
    /\ UNCHANGED <<where_keeps_nan, feed, store, nullRows, store0, pc, status_code, pos,
                   first_chunk, chunk_idx, records, i, total_uploaded,
                   outcome, exit_code>>

\* Variant: the handler prints the error and does not set has_errors.
UpsertRejectSilent ==
    /\ pc = "batch"
    /\ i < Len(records)
    /\ calls' = Append(calls, Call(Slice(records, i), FALSE))
    /\ i' = i + BATCH_SIZE
    /\ UNCHANGED <<where_keeps_nan, feed, store, nullRows, store0, pc, status_code, pos,
                   first_chunk, chunk_idx, records, total_uploaded,
                   has_errors, outcome, exit_code>>

\* Lines 100-102: the upsert raises; the error is printed, has_errors is
\* set and the loop goes on with the next batch.
UpsertReject ==
    /\ pc = "batch"
    /\ i < Len(records)
    /\ calls' = Append(calls, Call(Slice(records, i), FALSE))
    /\ has_errors' = TRUE
    /\ i' = i + BATCH_SIZE
    /\ UNCHANGED <<where_keeps_nan, feed, store, nullRows, store0, pc, status_code, pos,
                   first_chunk, chunk_idx, records, total_uploaded, outcome,
                   exit_code>>

\* Variant: the records of a chunk are counted only while no batch failed.
EndChunkCountsUntilError ==
    /\ pc = "batch"
    /\ i >= Len(records)
    /\ total_uploaded' = IF has_errors THEN total_uploaded
                         ELSE total_uploaded + Len(records)
    /\ chunk_idx' = chunk_idx + 1
    /\ pc' = "next_chunk"
    /\ UNCHANGED <<where_keeps_nan, feed, store, nullRows, store0,
                   status_code, pos, first_chunk, records, i, has_errors,
                   calls, outcome, exit_code>>

\* Lines 104-105: the batch loop of the chunk is over.
EndChunk ==
    /\ pc = "batch"
    /\ i >= Len(records)
    /\ total_uploaded' = total_uploaded + Len(records)
    /\ chunk_idx' = chunk_idx + 1
    /\ pc' = "next_chunk"
    /\ UNCHANGED <<where_keeps_nan, feed, store, nullRows, store0, status_code, pos,
                   first_chunk, records, i, has_errors, calls, outcome,
                   exit_code>>

\* Variant: batch errors are reported without sys.exit(1).
FinishWithErrorsExitZero ==
    /\ pc = "finish"
    /\ has_errors
    /\ Exit(0, "batch_errors")
    /\ UNCHANGED <<where_keeps_nan, feed, store, nullRows, store0, status_code, pos,
                   first_chunk, chunk_idx, records, i, total_uploaded,
                   has_errors, calls>>

\* Lines 110-113: batch errors end the run with sys.exit(1).
FinishWithErrors ==
    /\ pc = "finish"
    /\ has_errors
    /\ Exit(1, "batch_errors")
    /\ UNCHANGED <<where_keeps_nan, feed, store, nullRows, store0, status_code, pos,
                   first_chunk, chunk_idx, records, i, total_uploaded,
                   has_errors, calls>>

\* Variant: the run deletes the rows with a stale watermark before it
\* reports success.
FinishSuccessPurging ==
    /\ pc = "finish"
    /\ ~has_errors
    /\ store' = [k \in {x \in DOMAIN store :
                          store[x].watermark # <<StaleWatermark>>} |-> store[k]]
    /\ calls' = Append(calls, [op |-> "delete", chunk |-> chunk_idx, at |-> 0,
                               batch |-> <<>>, ok |-> TRUE])
    /\ Exit(0, "success")
    /\ UNCHANGED <<where_keeps_nan, feed, nullRows, store0, status_code, pos, first_chunk,
                   chunk_idx, records, i, total_uploaded, has_errors>>

\* Line 119: the success report; the process ends with status 0.
FinishSuccess ==
    /\ pc = "finish"
    /\ ~has_errors
    /\ Exit(0, "success")
    /\ UNCHANGED <<where_keeps_nan, feed, store, nullRows, store0, status_code, pos,
                   first_chunk, chunk_idx, records, i, total_uploaded,
                   has_errors, calls>>

Next ==
    \/ CheckEnv
    \/ CreateClient
    \/ RequestGetRaises
    \/ RequestGet
    \/ ReadCsv
    \/ NextChunkRaises
    \/ NextChunk
    \/ FeedExhausted
    \/ UpsertAccept
    \/ UpsertReject
    \/ EndChunk
    \/ FinishWithErrors
    \/ FinishSuccess

Spec == Init /\ [][Next]_vars

\* Runs over the feeds of up to MaxRows rows of one product: the steps of
\* a run depend on how many rows the feed has and on what the store
\* answers, not on the keys.
InitOneKey ==
    /\ Init
    /\ \A n \in 1..Len(feed) : feed[n].aw_product_id = "k1"

\* The script is one sequential process: while a step of it is possible,
\* it is taken.
FairSpec == InitOneKey /\ [][Next]_vars /\ WF_vars(Next)

\* ------------------------------------------------ the upsert on its own
\* The upsert of lines 91-94 applied to one batch twice: any table, any
\* batch of up to BATCH_SIZE cleaned records the store can accept.  store0
\* keeps the table as the first submission left it.
InitResubmit ==
    /\ where_keeps_nan \in BOOLEAN
    /\ feed \in SeqsUpTo(RawRows, BATCH_SIZE) \ {<<>>}
    /\ records = clean_dataframe(feed)
    /\ store \in InitialStores
    /\ store0 = store
    /\ nullRows = 0
    /\ pc = "submit"
    /\ status_code = 200
    /\ pos = Len(feed)
    /\ first_chunk = FALSE
    /\ chunk_idx = 0
    /\ i = 0
    /\ total_uploaded = 0
    /\ has_errors = FALSE
    /\ calls = <<>>
    /\ outcome = "running"
    /\ exit_code = -1

SubmitBatch ==
    /\ pc = "submit"
    /\ JsonCompliant(records)
    /\ store' = ApplyUpsert(store, records)
    /\ store0' = store'
    /\ nullRows' = nullRows + NullKeyCount(records)
    /\ calls' = Append(calls, Call(records, TRUE))
    /\ pc' = "submit_again"
    /\ UNCHANGED <<where_keeps_nan, feed, status_code, pos, first_chunk,
                   chunk_idx, records, i, total_uploaded, has_errors,
                   outcome, exit_code>>

SubmitBatchAgain ==
    /\ pc = "submit_again"
    /\ store' = ApplyUpsert(store, records)
    /\ nullRows' = nullRows + NullKeyCount(records)
    /\ calls' = Append(calls, Call(records, TRUE))
    /\ pc' = "submitted"
    /\ UNCHANGED <<where_keeps_nan, feed, store0, status_code, pos,
                   first_chunk, chunk_idx, records, i, total_uploaded,
                   has_errors, outcome, exit_code>>

NextResubmit == SubmitBatch \/ SubmitBatchAgain

SpecResubmit == InitResubmit /\ [][NextResubmit]_vars

SpecWide == InitWide /\ [][Next]_vars

\* ------------------------------------------------- quantities of a run
\* The unique keys the feed lists (an empty key cell names no row).
FeedKeys == {feed[n].aw_product_id : n \in 1..Len(feed)} \cap Keys

\* The cleaned zipcode of the last feed row with key k.
LastZip(k) ==
    LET last == CHOOSE n \in 1..Len(feed) :
                    /\ feed[n].aw_product_id = k
                    /\ \A m \in (n + 1)..Len(feed) : feed[m].aw_product_id # k
    IN  CleanRow(feed[last]).zipcode

\* Number of chunks the reader yields for the feed.
NumChunks ==
    IF Len(feed) = 0 THEN 1 ELSE (Len(feed) + CHUNK_SIZE - 1) \div CHUNK_SIZE

\* The records of chunk c (counted from 0).
ChunkRecords(c) ==
    clean_dataframe(SubSeq(feed, c * CHUNK_SIZE + 1,
                           Min((c + 1) * CHUNK_SIZE, Len(feed))))

\* The batches of chunk c: <<chunk, offset, records>>, in order.
ChunkBatches(c) ==
    LET recs == ChunkRecords(c)
        nb   == (Len(recs) + BATCH_SIZE - 1) \div BATCH_SIZE
    IN  [b \in 1..nb |-> <<c, (b - 1) * BATCH_SIZE, Slice(recs, (b - 1) * BATCH_SIZE)>>]

\* The batches of the first n chunks of the feed, in feed order.
RECURSIVE BatchesOfChunks(_)
BatchesOfChunks(n) ==
    IF n = 0 THEN <<>> ELSE BatchesOfChunks(n - 1) \o ChunkBatches(n - 1)

\* What the run has submitted to the store so far.
Submitted == [j \in 1..Len(calls) |-> <<calls[j].chunk, calls[j].at, calls[j].batch>>]
Position(j) == <<calls[j].chunk, calls[j].at>>
Rejected == {j \in 1..Len(calls) : ~calls[j].ok}
PurgeCalls == {j \in 1..Len(calls) : calls[j].op = "delete"}

\* The run went through the whole feed and reported (lines 107-119).
Reported == pc = "exited" /\ outcome \in {"success", "batch_errors"}
\* The run ended on a fatal transport or decode error (lines 57-60, 115-117).
FatalEnd == pc = "exited" /\ outcome \in {"bad_status", "critical"}

\* The watermark a run started now would carry, and "w is older than W".
RunWatermark == StaleWatermark + 1
Older(w, W) == w # NoWatermark /\ w[1] < W

\* --------------------------------------------------------------- claims

\* C1: partial-failure containment.  A rejected upsert never stops the
\* processing loop: whenever the run gets through the feed, every batch of
\* every chunk has been submitted, once and in feed order, whichever of
\* them the store rejected.
C1_Containment ==
    (pc = "finish" \/ Reported) => Submitted = BatchesOfChunks(NumChunks)

\* A run that reported although the store rejected the first batch of the
\* first chunk, with a later batch of that chunk and a batch of a later
\* chunk submitted after it.
C1_Witness ==
    /\ Reported
    /\ Len(calls) >= 3
    /\ ~calls[1].ok
    /\ calls[2].chunk = calls[1].chunk
    /\ calls[Len(calls)].chunk # calls[1].chunk

\* C2 as stated: after a completed run with watermark W no store row has a
\* watermark older than W and every row of a feed key has watermark W.
C2_Original ==
    outcome = "success" =>
        /\ \A k \in DOMAIN store : ~Older(store[k].watermark, RunWatermark)
        /\ \A k \in FeedKeys :
               k \in DOMAIN store /\ store[k].watermark = <<RunWatermark>>

\* C2 (amended): the run stamps no watermark and purges nothing.  After a
\* successful run every feed key has a row holding the cleaned values of
\* its last feed occurrence, with the watermark the row had before the run
\* (none for a new row), and every other row is exactly as the run found it.
C2_UpsertOnly ==
    outcome = "success" =>
        /\ \A k \in FeedKeys :
               /\ k \in DOMAIN store
               /\ store[k].zipcode = LastZip(k)
               /\ store[k].watermark =
                      IF k \in DOMAIN store0 THEN store0[k].watermark
                      ELSE NoWatermark
        /\ \A k \in DOMAIN store0 \ FeedKeys :
               k \in DOMAIN store /\ store[k] = store0[k]

\* A successful run over a feed that lists k1 twice with different values,
\* on a store holding a stale k1 and a stale k2 the feed has dropped.
C2_Witness ==
    /\ outcome = "success"
    /\ FeedKeys = {"k1"}
    /\ DOMAIN store0 = {"k1", "k2"}
    /\ \E m, n \in 1..Len(feed) :
          /\ m < n
          /\ feed[m].aw_product_id = "k1" /\ feed[n].aw_product_id = "k1"
          /\ feed[m].zipcode # feed[n].zipcode

\* C3 as stated: after a successful run the store's keys are the feed's.
C3_Original == outcome = "success" => DOMAIN store = FeedKeys

\* C3 (amended): after a successful run, for any initial store contents,
\* the store's keys are the keys it had before the run together with the
\* feed's keys: every feed key has exactly one row and no row is deleted.
C3_KeysUnion ==
    outcome = "success" => DOMAIN store = DOMAIN store0 \cup FeedKeys

\* A successful run that added a key to a store holding a key the feed
\* does not list.
C3_Witness ==
    /\ outcome = "success"
    /\ FeedKeys \ DOMAIN store0 # {}
    /\ DOMAIN store0 \ FeedKeys # {}

\* C5 as stated: a run that consumes the whole feed invokes the purge.
C5_Original == Reported => PurgeCalls # {}

\* C5 (amended): a run that consumes the whole feed without a fatal error
\* ends with its report, with or without batch errors, and has invoked no
\* purge: every store call of the run is an upsert and no row the store
\* held before the run has been removed.
C5_NoPurge ==
    Reported =>
        /\ PurgeCalls = {}
        /\ DOMAIN store0 \subseteq DOMAIN store

\* A run that reported batch errors, on a store with a row the feed
\* does not list.
C5_Witness ==
    /\ Reported
    /\ Rejected # {}
    /\ DOMAIN store0 \ FeedKeys # {}

\* C6: a non-success status of the download ends the run at once with
\* exit status 1, no store call issued and the store unchanged.
C6_BadStatus ==
    status_code \notin {0, 200} =>
        /\ pc = "exited" /\ exit_code = 1 /\ outcome = "bad_status"
        /\ calls = <<>>
        /\ store = store0 /\ nullRows = 0

\* A run over a non-empty feed ended by a 404.
C6_Witness ==
    /\ status_code = 404
    /\ pc = "exited"
    /\ Len(feed) > 0
    /\ store0 # <<>>

\* C7 as stated: a run that ends on a fatal error has upserted no batch.
C7_Original == FatalEnd => calls = <<>>

\* C7 (amended): a fatal error before the first chunk has been processed
\* (connection failure, non-success status, a stream that cannot be
\* opened) ends the run with no upsert call and the store unchanged; when
\* the stream fails after some chunks, exactly the batches of the chunks
\* read before the failure have been submitted and none of a later chunk.
C7_FatalAfterChunks ==
    FatalEnd =>
        /\ Submitted = BatchesOfChunks(chunk_idx)
        /\ chunk_idx = 0 => (calls = <<>> /\ store = store0 /\ nullRows = 0)

\* A run whose stream failed after the first chunk had been upserted.
C7_Witness ==
    /\ FatalEnd
    /\ outcome = "critical"
    /\ chunk_idx = 1
    /\ pos < Len(feed)
    /\ store # store0

\* C8 as stated: a rejected upsert is followed by one resubmission of the
\* same batch.
C8_Original ==
    Reported =>
        \A j \in Rejected :
            (j = 1 \/ Position(j - 1) # Position(j)) =>
                (j < Len(calls) /\ Position(j + 1) = Position(j))

\* C8 (amended): there is no retry.  A batch whose upsert raises is
\* recorded as failed at once (has_errors) and never resubmitted: no batch
\* is submitted more than once.
C8_NoRetry ==
    /\ \A j, k \in 1..Len(calls) : j # k => Position(j) # Position(k)
    /\ Rejected # {} => has_errors

\* A rejected upsert followed by the upsert of the next batch.
C8_Witness ==
    \E j \in Rejected :
        /\ j < Len(calls)
        /\ calls[j + 1].chunk = calls[j].chunk
        /\ calls[j + 1].at = calls[j].at + BATCH_SIZE

\* The exit statuses of the fatal paths (lines 60 and 117).
FatalExitCodes == {1}

\* C9 as stated: a run whose only errors are batch failures ends with a
\* signal to the scheduler that differs from the one of a fatal error.
C9_Original == outcome = "batch_errors" => exit_code \notin FatalExitCodes

\* C9 (amended): a run whose only errors are batch write failures reports
\* "finished with some batch errors" and exits with status 1, the status
\* of a fatal error; only the message distinguishes the two.
C9_BatchErrorsExitOne ==
    (Reported /\ Rejected # {}) =>
        /\ outcome = "batch_errors"
        /\ exit_code = 1

\* A run that got through a feed of two chunks with one rejected batch.
C9_Witness ==
    /\ Reported
    /\ Cardinality(Rejected) = 1
    /\ chunk_idx = 2

\* C10 as stated: success is reported exactly when no batch failed and
\* the purge succeeded.
C10_Original ==
    pc = "exited" =>
        (outcome = "success" <=>
            (Rejected = {} /\ \E j \in PurgeCalls : calls[j].ok))

\* C10 (amended): a run that gets through the feed reports success, with
\* exit status 0, if and only if no upsert call raised; no purge is part
\* of the condition.  Success is never reported after a raised upsert.
C10_SuccessIffNoRejection ==
    /\ Reported => (outcome = "success" <=> Rejected = {})
    /\ outcome = "success" => (Rejected = {} /\ exit_code = 0)
    /\ exit_code = 0 => outcome = "success"

\* A successful run of three accepted batches.
C10_Witness ==
    /\ outcome = "success"
    /\ Len(calls) = 3

\* The records of the first n store calls, one after the other.
RECURSIVE RecordsOfCalls(_)
RecordsOfCalls(n) ==
    IF n = 0 THEN <<>> ELSE RecordsOfCalls(n - 1) \o calls[n].batch

\* Every record the run has submitted so far, in submission order.
SubmittedRecords == RecordsOfCalls(Len(calls))

ParsesAsNumber(c) == c \in {"12", "s:12"}
NotNumeric(c) == c \in {"s:SW1A"}

\* C12 as stated: numeric coercion is per field.  When the run gets through
\* the feed every feed row is a submitted record, whose zipcode is null if
\* the cell does not parse as a number and the number if it does, and whose
\* unique key is the one of the row.
C12_Original ==
    (pc = "finish" \/ Reported) =>
        /\ Len(SubmittedRecords) = Len(feed)
        /\ \A n \in 1..Len(feed) :
               /\ NotNumeric(feed[n].zipcode) =>
                      SubmittedRecords[n].zipcode = "None"
               /\ ParsesAsNumber(feed[n].zipcode) =>
                      SubmittedRecords[n].zipcode = "12"
               /\ SubmittedRecords[n].aw_product_id =
                      NullToNone(feed[n].aw_product_id)

\* C13 as stated: no submitted record holds a not-a-number or an infinite
\* value in any field.
C13_Original ==
    \A j \in 1..Len(calls) : JsonCompliant(calls[j].batch)

\* The rows with a null key one submission of the batch adds.
NullKeyed(batch) == {n \in 1..Len(batch) : batch[n].aw_product_id = "None"}

RECURSIVE AcceptedRecords(_)
AcceptedRecords(n) ==
    IF n = 0 THEN 0
    ELSE AcceptedRecords(n - 1) + (IF calls[n].ok THEN Len(calls[n].batch) ELSE 0)

\* C15 as stated: the row count the run reports is the number of records
\* in the batches the store accepted.
C15_Original == Reported => total_uploaded = AcceptedRecords(Len(calls))

\* C15 (amended): the row count the run reports (total_uploaded, printed
\* as "Total rows processed") is the number of feed rows in the chunks
\* processed so far, whether the store accepted or rejected their batches;
\* at the end of a run that got through the feed it is the number of rows
\* of the feed and of records submitted.
C15_RowsProcessed ==
    /\ total_uploaded = IF pc = "batch" THEN pos - Len(records) ELSE pos
    /\ Reported => /\ total_uploaded = Len(feed)
                   /\ total_uploaded = Len(SubmittedRecords)

\* A run that reported a count above the number of records the store
\* accepted, with one batch accepted and one rejected.
C15_Witness ==
    /\ Reported
    /\ Rejected # {}
    /\ AcceptedRecords(Len(calls)) > 0
    /\ total_uploaded > AcceptedRecords(Len(calls))

\* The records of the calls for chunk c among the first n store calls, one
\* after the other.
RECURSIVE RecordsOfChunkCalls(_, _)
RecordsOfChunkCalls(c, n) ==
    IF n = 0 THEN <<>>
    ELSE RecordsOfChunkCalls(c, n - 1)
            \o (IF calls[n].chunk = c THEN calls[n].batch ELSE <<>>)

\* C16: batching partitions each chunk.  Every batch submitted holds at
\* least 1 and at most BATCH_SIZE records; the batches of a processed chunk,
\* one after the other, are the records of the chunk in feed order, none
\* dropped and none twice (so an empty chunk has no upsert call); and the
\* batches of the chunk in progress are the records before offset i.
C16_BatchesPartitionChunk ==
    /\ \A j \in 1..Len(calls) :
           Len(calls[j].batch) >= 1 /\ Len(calls[j].batch) <= BATCH_SIZE
    /\ \A c \in 0..(chunk_idx - 1) :
           RecordsOfChunkCalls(c, Len(calls)) = ChunkRecords(c)
    /\ pc = "batch" =>
           RecordsOfChunkCalls(chunk_idx, Len(calls))
               = SubSeq(records, 1, Min(i, Len(records)))

\* A processed first chunk of CHUNK_SIZE records, submitted as a full
\* batch followed by a shorter one.
C16_Witness ==
    /\ chunk_idx >= 1
    /\ Len(ChunkRecords(0)) = CHUNK_SIZE
    /\ Len(calls) >= 2
    /\ Len(calls[1].batch) = BATCH_SIZE
    /\ calls[2].chunk = 0
    /\ Len(calls[2].batch) = CHUNK_SIZE - BATCH_SIZE

\* The accepted calls whose batch holds a record with key k.
AcceptedWith(k) ==
    {j \in 1..Len(calls) :
        calls[j].ok /\ \E n \in 1..Len(calls[j].batch) :
                           calls[j].batch[n].aw_product_id = k}

\* The zipcode of the last record with key k in a batch.
LastInBatch(batch, k) ==
    LET last == CHOOSE n \in 1..Len(batch) :
                    /\ batch[n].aw_product_id = k
                    /\ \A m \in (n + 1)..Len(batch) : batch[m].aw_product_id # k
    IN  batch[last].zipcode

\* C17: upsert calls are issued one at a time in feed order (by chunk, then
\* by offset in the chunk), and a key that occurs in several accepted
\* batches has exactly one store row, which holds the values of its
\* occurrence in the latest of these batches.
C17_LaterBatchWins ==
    /\ \A j, k \in 1..Len(calls) :
           j < k => \/ calls[j].chunk < calls[k].chunk
                    \/ calls[j].chunk = calls[k].chunk /\ calls[j].at < calls[k].at
    /\ \A key \in Keys :
           AcceptedWith(key) # {} =>
               LET latest == CHOOSE j \in AcceptedWith(key) :
                                 \A m \in AcceptedWith(key) : m <= j
               IN  /\ key \in DOMAIN store
                   /\ store[key].zipcode = LastInBatch(calls[latest].batch, key)

\* A run that reported after the store accepted two batches holding k1
\* with different zipcodes.
C17_Witness ==
    /\ Reported
    /\ \E j, k \in AcceptedWith("k1") :
          /\ j < k
          /\ LastInBatch(calls[j].batch, "k1") # LastInBatch(calls[k].batch, "k1")

\* Steps the run has at most left: three for every row still to read (read
\* it, submit it, end its chunk), what is left of the chunk in progress,
\* and the steps before the download and after the loop.
Rank ==
    LET unread == 3 * (Len(feed) - pos) + 2
        opening == 3 * Len(feed) + 5
    IN  CASE pc = "setup"         -> opening + 4
          [] pc = "create_client" -> opening + 3
          [] pc = "download"      -> opening + 2
          [] pc = "open_reader"   -> opening + 1
          [] pc = "next_chunk"    -> unread + (IF first_chunk THEN 3 ELSE 0)
          [] pc = "batch"         -> unread + 1 + (IF i < Len(records)
                                                   THEN Len(records) - i ELSE 0)
          [] pc = "finish"        -> 1
          [] OTHER                -> 0

\* C18: termination.  Every step of a run lowers the number of steps it has
\* at most left, whatever the store accepts or rejects; the run never
\* issues more upsert calls than the feed has rows; and every run reaches
\* a terminal outcome.
C18_Termination ==
    /\ [][Rank' < Rank]_vars
    /\ [](Rank >= 0 /\ Len(calls) <= Len(feed))
    /\ <>(pc = "exited")

\* A run that ended with batch errors after the store rejected every batch
\* of a feed of two chunks.
C18_Witness ==
    /\ pc = "exited"
    /\ outcome = "batch_errors"
    /\ chunk_idx = 2
    /\ Len(calls) >= 3
    /\ \A j \in 1..Len(calls) : ~calls[j].ok

====
